---- MODULE Spec2Model ----
(***************************************************************************)
(* Model of the agent application.  src/utils/error_handling.py: the retry *)
(* decorator (one wrapped operation with its policy, called repeatedly by  *)
(* a single synchronous caller), ToolExecutionError and the process-wide   *)
(* FallbackRegistry.  src/tools/base_tool.py: EnhancedTool.                *)
(* src/tools/youtube_tool.py: YouTubeTranscriptTool.forward.  src/app.py:  *)
(* BasicAgent.__call__ and run_and_submit_all.  Each component has its own *)
(* specification over the shared variables.                                *)
(***************************************************************************)
EXTENDS Integers, Sequences, FiniteSets, TLC

\* ---------------------------------------------------------------- bounds
MaxTries == 3
MaxNegTries == 1
MaxDelay == 1
MaxBackoff == 2
MaxErrs == 2
MaxToolCalls == 2
MaxQuestions == 2
MaxAgentCalls == 2
MaxYtCalls == 2

\* ------------------------------------------------------- input alphabets
\* Return values of the wrapped operation.
Values == {"ok", "v2"}
\* Failures the wrapped operation can raise.  ValueError and IOError derive
\* from Exception; KeyboardInterrupt derives from BaseException only.
Errors == {"ValueError", "IOError", "KeyboardInterrupt"}
\* The failure a sink raises when it fails.
SinkError == "SinkError"
\* logger_func: a callable (print by default), each call of which returns or
\* raises, or None.
Sinks == {"callable", "None"}
\* Identifiers and operations of the registry.
Ids == {"x", "y"}
Ops == {"A", "B"}
None == "None"
\* func.__name__: the name of the wrapped operation, which is also an
\* identifier a fallback can be registered under.
FuncName == "x"

\* What one invocation of func(*args, **kwargs) can do.
OpOutcomes ==
    [kind : {"return"}, val : Values] \cup [kind : {"raise"}, val : Errors]
        \cup {[kind |-> "hang", val |-> None]}

VARIABLES
    tries, delay, backoff, logger_func,   \* closure of retry(...)
    pc,                                   \* position inside wrapper
    mtries, mdelay,                       \* locals of wrapper
    e,                                    \* exception bound by "except ... as e"
    hist,                                 \* outcomes of the invocations of func in this call
    notes,                                \* messages handed to logger_func in this call
    waits,                                \* arguments of time.sleep in this call
    trace,                                \* all events of this call, in order
    outcome,                              \* what the caller of wrapper observes
    fallbacks,                            \* FallbackRegistry._fallbacks
    lastReg, everReg,                     \* history: last / all registrations
    last,                                 \* last registry call and its result
    consumed,                             \* an earlier call went through a retry (SpecCalls)
    callers,                              \* threads calling the registry concurrently
    errs,                                 \* ToolExecutionError objects constructed
    tool,                                 \* an EnhancedTool and its calls
    app,                                  \* one run of run_and_submit_all
    agent,                                \* the calls of a BasicAgent
    yt                                    \* the calls of YouTubeTranscriptTool.forward

vars == <<tries, delay, backoff, logger_func, pc, mtries, mdelay, e, hist,
          notes, waits, trace, outcome, fallbacks, lastReg, everReg, last,
          consumed, callers, errs, tool, app, agent, yt>>

policy == <<tries, delay, backoff, logger_func>>
locals == <<mtries, mdelay, e>>
history == <<hist, notes, waits, trace>>
registry == <<fallbacks, lastReg, everReg, last>>
\* The state of the other components, which the retry wrapper and the
\* sequential registry calls do not touch.
others == <<callers, errs, tool, app, agent, yt>>

NoOutcome == [kind |-> "none", val |-> None, src |-> None]

\* ------------------------------------------------------ pure helpers
RECURSIVE Pow(_, _)
Pow(b, n) == IF n = 0 THEN 1 ELSE b * Pow(b, n - 1)

\* A loop that stops one attempt early ("while mtries > 1").
LoopCondOffByOne(m) == m > 1

\* "while mtries > 0"
LoopCond(m) == m > 0

\* The failures that are instances of Exception.
ExceptionErrors == {"ValueError", "IOError", "TypeError"}

\* A handler that names one exception class only ("except ValueError as e").
IsExceptionValueErrorOnly(err) == err = "ValueError"

\* "except Exception as e": which raised failures the handler catches.
IsException(err) == err \in ExceptionErrors

\* The f-string of the retry message: f"... Retrying in {mdelay}s...
\* ({mtries-1} tries left). Error: {e}"
RetryMsg(d, m, err) == [delay |-> d, left |-> m - 1, err |-> err]

\* An inverted test ("if not logger_func:").
TruthyInverted(f) == f = None

\* "if logger_func:" -- None is falsy, a callable is truthy.
Truthy(f) == f # None

\* A handler that does not count the attempt down.
DecTriesStuck(m) == m

\* "mtries -= 1"
DecTries(m) == m - 1

\* A linear instead of an exponential backoff ("mdelay += backoff").
NextDelayLinear(d, b) == d + b

\* "mdelay *= backoff"
NextDelay(d, b) == d * b

\* dict as a set of <<key, value>> pairs.
\* d[k] = v : any pair under k is replaced.
DictSet(d, k, v) == {p \in d : p[1] # k} \cup {<<k, v>>}

\* d.get(k): the value under k, or None; never raises.
DictGet(d, k) ==
    IF \E p \in d : p[1] = k
    THEN [kind |-> "return", val |-> (CHOOSE p \in d : p[1] = k)[2]]
    ELSE [kind |-> "return", val |-> None]

\* A registration that keeps the first operation of an identifier
\* ("cls._fallbacks.setdefault(tool_name, fallback_func)").
RegisterFallbackFirstWins(d, tool_name, fallback_func) ==
    IF \E p \in d : p[1] = tool_name THEN d ELSE d \cup {<<tool_name, fallback_func>>}

\* A registration that rebinds the dict to a new one holding only this entry.
RegisterFallbackRebind(d, tool_name, fallback_func) == {<<tool_name, fallback_func>>}

\* FallbackRegistry.register_fallback
RegisterFallback(d, tool_name, fallback_func) == DictSet(d, tool_name, fallback_func)

\* A lookup by subscript ("cls._fallbacks[tool_name]"): KeyError on a miss.
GetFallbackSubscript(d, tool_name) ==
    IF \E p \in d : p[1] = tool_name
    THEN [kind |-> "return", val |-> (CHOOSE p \in d : p[1] = tool_name)[2]]
    ELSE [kind |-> "raise", val |-> "KeyError"]

\* FallbackRegistry.get_fallback
GetFallback(d, tool_name) == DictGet(d, tool_name)

\* The threads that call the registry concurrently.
Threads == {"t1", "t2"}

\* A thread that is in no registry call.
IdleCaller ==
    [pc |-> "idle", op |-> "none", id |-> None, fn |-> None,
     res |-> [kind |-> "none", val |-> None], seen |-> {}]

\* The other components before they are used.
NoCallers == [t \in Threads |-> IdleCaller]
NoTool ==
    [class |-> None, metadata |-> None, calls |-> <<>>, rate |-> <<>>,
     lastop |-> "none"]
NoApp ==
    [pc |-> "off", profile |-> None, agent |-> "none", fetch |-> "none",
     questions |-> <<>>, idx |-> 1, ran |-> 0, answers |-> <<>>,
     results |-> <<>>, posts |-> 0, status |-> "none"]

\* ------------------------------------------------------------ Init
\* The policy is any number of tries, no delay or the longest one, and a
\* constant delay or the largest backoff factor.
Init ==
    /\ tries \in (0 - MaxNegTries)..MaxTries
    /\ delay \in {0, MaxDelay}
    /\ backoff \in {1, MaxBackoff}
    /\ logger_func \in Sinks
    /\ pc = "idle"
    /\ mtries = 0 /\ mdelay = 0 /\ e = None
    /\ hist = <<>> /\ notes = <<>> /\ waits = <<>> /\ trace = <<>>
    /\ outcome = NoOutcome
    /\ fallbacks = {}
    /\ lastReg = [x \in Ids |-> None]
    /\ everReg = {}
    /\ last = [op |-> "none", id |-> None, res |-> NoOutcome]
    /\ consumed = FALSE
    /\ callers = NoCallers
    /\ errs = <<>>
    /\ tool = NoTool
    /\ app = NoApp
    /\ agent = <<>>
    /\ yt = <<>>

\* ------------------------------------------------- the retry wrapper
\* An entry that validates the policy (mtries = max(tries, 1)).
CallClamped ==
    /\ pc = "idle"
    /\ mtries' = (IF tries < 1 THEN 1 ELSE tries) /\ mdelay' = delay /\ e' = None
    /\ hist' = <<>> /\ notes' = <<>> /\ waits' = <<>> /\ trace' = <<>>
    /\ outcome' = NoOutcome
    /\ pc' = "loop"
    /\ UNCHANGED <<policy, registry, consumed, others>>

\* wrapper is entered: "mtries, mdelay = tries, delay"
Call ==
    /\ pc = "idle"
    /\ mtries' = tries /\ mdelay' = delay /\ e' = None
    /\ hist' = <<>> /\ notes' = <<>> /\ waits' = <<>> /\ trace' = <<>>
    /\ outcome' = NoOutcome
    /\ pc' = "loop"
    /\ UNCHANGED <<policy, registry, consumed, others>>

\* "while mtries > 0:"
LoopTest ==
    /\ pc = "loop"
    /\ pc' = IF LoopCond(mtries) THEN "try" ELSE "final"
    /\ UNCHANGED <<policy, locals, history, outcome, registry, consumed,
                 others>>

\* "try: return func(*args, **kwargs)  except Exception as e:"
ProtectedInvoke ==
    /\ pc = "try"
    /\ \E o \in OpOutcomes :
        /\ hist' = Append(hist, o)
        /\ CASE o.kind = "return" ->
                  /\ outcome' = [kind |-> "return", val |-> o.val, src |-> "protected"]
                  /\ trace' = trace \o <<<<"invoke">>, <<"return", o.val>>>>
                  /\ pc' = "done" /\ e' = e
             [] o.kind = "raise" /\ IsException(o.val) ->
                  /\ e' = o.val
                  /\ trace' = Append(trace, <<"invoke">>)
                  /\ pc' = "except" /\ outcome' = outcome
             [] o.kind = "raise" /\ ~IsException(o.val) ->
                  /\ outcome' = [kind |-> "raise", val |-> o.val, src |-> "protected"]
                  /\ trace' = trace \o <<<<"invoke">>, <<"raise", o.val>>>>
                  /\ pc' = "done" /\ e' = e
             [] o.kind = "hang" ->
                  /\ trace' = Append(trace, <<"invoke">>)
                  /\ pc' = "hung" /\ e' = e /\ outcome' = outcome
    /\ UNCHANGED <<policy, mtries, mdelay, notes, waits, registry, consumed,
                 others>>

\* A handler whose sleep is nested under "if logger_func:", so that without
\* a sink the attempt is consumed but no wait is made.
NotifyGatesSleep ==
    /\ pc = "except"
    /\ IF Truthy(logger_func)
       THEN /\ notes' = Append(notes, RetryMsg(mdelay, mtries, e))
            /\ trace' = Append(trace, <<"notify">>)
            /\ pc' = "sleep"
            /\ UNCHANGED <<mtries, mdelay>>
       ELSE /\ pc' = "loop"
            /\ mtries' = DecTries(mtries)
            /\ mdelay' = NextDelay(mdelay, backoff)
            /\ UNCHANGED <<notes, trace>>
    /\ UNCHANGED <<policy, e, hist, waits, outcome, registry, consumed, others>>

\* "msg = f'...'; if logger_func: logger_func(msg)"
Notify ==
    /\ pc = "except"
    /\ IF Truthy(logger_func)
       THEN /\ notes' = Append(notes, RetryMsg(mdelay, mtries, e))
            /\ \/ /\ pc' = "sleep"
                  /\ trace' = Append(trace, <<"notify">>)
                  /\ outcome' = outcome
               \/ /\ pc' = "done"
                  /\ trace' = trace \o <<<<"notify">>, <<"raise", SinkError>>>>
                  /\ outcome' = [kind |-> "raise", val |-> SinkError, src |-> "sink"]
       ELSE /\ pc' = "sleep"
            /\ UNCHANGED <<notes, trace, outcome>>
    /\ UNCHANGED <<policy, locals, hist, waits, registry, consumed, others>>

\* A handler without the "time.sleep(mdelay)" line.
SleepSkipped ==
    /\ pc = "sleep"
    /\ mtries' = DecTries(mtries)
    /\ mdelay' = NextDelay(mdelay, backoff)
    /\ pc' = "loop"
    /\ UNCHANGED <<policy, e, history, outcome, registry, consumed, others>>

\* A handler that counts down the closure's own tries and delay
\* ("nonlocal tries, delay") instead of the copies made per call.
SleepConsumesPolicy ==
    /\ pc = "sleep"
    /\ waits' = Append(waits, mdelay)
    /\ trace' = Append(trace, <<"wait", mdelay>>)
    /\ mtries' = DecTries(mtries)
    /\ mdelay' = NextDelay(mdelay, backoff)
    /\ tries' = DecTries(tries)
    /\ delay' = NextDelay(delay, backoff)
    /\ pc' = "loop"
    /\ UNCHANGED <<backoff, logger_func, e, hist, notes, outcome, registry,
                   consumed, others>>

\* A handler that does not wait when no protected attempt is left
\* ("if mtries > 1: time.sleep(mdelay)").
SleepNotAfterLast ==
    /\ pc = "sleep"
    /\ IF mtries > 1
       THEN /\ waits' = Append(waits, mdelay)
            /\ trace' = Append(trace, <<"wait", mdelay>>)
       ELSE UNCHANGED <<waits, trace>>
    /\ mtries' = DecTries(mtries)
    /\ mdelay' = NextDelay(mdelay, backoff)
    /\ pc' = "loop"
    /\ UNCHANGED <<policy, e, hist, notes, outcome, registry, consumed, others>>

\* "time.sleep(mdelay); mtries -= 1; mdelay *= backoff"
Sleep ==
    /\ pc = "sleep"
    /\ waits' = Append(waits, mdelay)
    /\ trace' = Append(trace, <<"wait", mdelay>>)
    /\ mtries' = DecTries(mtries)
    /\ mdelay' = NextDelay(mdelay, backoff)
    /\ pc' = "loop"
    /\ UNCHANGED <<policy, e, hist, notes, outcome, registry, consumed, others>>

\* An exhaustion that raises a dedicated error instead of invoking again.
FinalInvokeExhausted ==
    /\ pc = "final"
    /\ pc' = "done"
    /\ outcome' = [kind |-> "raise", val |-> "RetriesExhausted", src |-> "final"]
    /\ trace' = Append(trace, <<"raise", "RetriesExhausted">>)
    /\ UNCHANGED <<policy, locals, hist, notes, waits, registry, consumed,
                 others>>

\* An exhaustion that calls the fallback registered under the operation's
\* name, when there is one, instead of the operation.
FinalInvokeFallback ==
    /\ pc = "final"
    /\ LET f == GetFallback(fallbacks, FuncName).val IN
       IF f # None
       THEN /\ pc' = "done"
            /\ outcome' = [kind |-> "return", val |-> f, src |-> "final"]
            /\ trace' = trace \o <<<<"invoke">>, <<"return", f>>>>
            /\ hist' = hist
       ELSE \E o \in OpOutcomes \ {[kind |-> "hang", val |-> None]} :
            /\ hist' = Append(hist, o)
            /\ pc' = "done"
            /\ outcome' = [kind |-> o.kind, val |-> o.val, src |-> "final"]
            /\ trace' = trace \o <<<<"invoke">>, <<o.kind, o.val>>>>
    /\ UNCHANGED <<policy, locals, notes, waits, registry, consumed, others>>

\* "return func(*args, **kwargs)" after the loop
FinalInvoke ==
    /\ pc = "final"
    /\ \E o \in OpOutcomes :
        /\ hist' = Append(hist, o)
        /\ IF o.kind = "hang"
           THEN /\ pc' = "hung" /\ outcome' = outcome
                /\ trace' = Append(trace, <<"invoke">>)
           ELSE /\ pc' = "done"
                /\ outcome' = [kind |-> o.kind, val |-> o.val, src |-> "final"]
                /\ trace' = trace \o <<<<"invoke">>, <<o.kind, o.val>>>>
    /\ UNCHANGED <<policy, locals, notes, waits, registry, consumed, others>>

\* A wrapper with a timeout: a call whose invocation hangs is abandoned.
ReturnOnTimeout ==
    /\ pc \in {"done", "hung"}
    /\ pc' = "idle"
    /\ mtries' = 0 /\ mdelay' = 0 /\ e' = None
    /\ hist' = <<>> /\ notes' = <<>> /\ waits' = <<>> /\ trace' = <<>>
    /\ outcome' = NoOutcome
    /\ UNCHANGED <<policy, registry, consumed, others>>

\* The caller has the result or the failure and the frame of wrapper is
\* gone; the wrapper can be called again.
Return ==
    /\ pc = "done"
    /\ pc' = "idle"
    /\ mtries' = 0 /\ mdelay' = 0 /\ e' = None
    /\ hist' = <<>> /\ notes' = <<>> /\ waits' = <<>> /\ trace' = <<>>
    /\ outcome' = NoOutcome
    /\ UNCHANGED <<policy, registry, consumed, others>>

\* ------------------------------------------------- the fallback registry
\* FallbackRegistry.register_fallback(tool_name, fallback_func)
Register ==
    /\ pc = "idle"
    /\ \E x \in Ids, f \in Ops :
        /\ fallbacks' = RegisterFallback(fallbacks, x, f)
        /\ lastReg' = [lastReg EXCEPT ![x] = f]
        /\ everReg' = everReg \cup {<<x, f>>}
        /\ last' = [op |-> "register", id |-> x, res |-> NoOutcome]
    /\ UNCHANGED <<policy, pc, locals, history, outcome, consumed, others,
                   agent, yt>>

\* A lookup that creates the entry it misses
\* ("cls._fallbacks.setdefault(tool_name, None)").
LookupSetDefault ==
    /\ pc = "idle"
    /\ \E x \in Ids :
        LET r == GetFallback(fallbacks, x) IN
        /\ last' = [op |-> "lookup", id |-> x,
                    res |-> [kind |-> r.kind, val |-> r.val, src |-> None]]
        /\ fallbacks' = IF \E p \in fallbacks : p[1] = x
                        THEN fallbacks ELSE fallbacks \cup {<<x, None>>}
    /\ UNCHANGED <<policy, pc, locals, history, outcome, lastReg, everReg,
                   consumed, others>>

\* FallbackRegistry.get_fallback(tool_name)
Lookup ==
    /\ pc = "idle"
    /\ \E x \in Ids :
        LET r == GetFallback(fallbacks, x) IN
        last' = [op |-> "lookup", id |-> x,
                 res |-> [kind |-> r.kind, val |-> r.val, src |-> None]]
    /\ UNCHANGED <<policy, pc, locals, history, outcome, fallbacks, lastReg,
                 everReg, consumed, others,
                   agent, yt>>

Next ==
    \/ Call
    \/ LoopTest
    \/ ProtectedInvoke
    \/ Notify
    \/ Sleep
    \/ FinalInvoke
    \/ Return
    \/ Register
    \/ Lookup

Spec == Init /\ [][Next]_vars

\* ------------------------------------- repeated calls of one wrapper
\* Return, which also records whether the finished call went through a
\* retry.
ReturnCounted ==
    /\ pc = "done"
    /\ pc' = "idle"
    /\ mtries' = 0 /\ mdelay' = 0 /\ e' = None
    /\ hist' = <<>> /\ notes' = <<>> /\ waits' = <<>> /\ trace' = <<>>
    /\ outcome' = NoOutcome
    /\ consumed' = (consumed \/ Len(waits) >= 1)
    /\ UNCHANGED <<policy, registry, others>>

InitCalls == Init

NextCalls ==
    \/ Call
    \/ LoopTest
    \/ ProtectedInvoke
    \/ Notify
    \/ Sleep
    \/ FinalInvoke
    \/ ReturnCounted

\* The wrapper called again and again, with the calls that retried counted.
SpecCalls == InitCalls /\ [][NextCalls]_vars

\* ------------------------------------- a wrapper call that keeps running
NextLive ==
    \/ Call
    \/ LoopTest
    \/ ProtectedInvoke
    \/ Notify
    \/ Sleep
    \/ FinalInvoke
    \/ Return

\* The wrapper is sequential code on a running thread: once a call has
\* started, the statement it is at is executed.  An invocation that never
\* returns leaves the call at "hung", from where nothing is enabled.
Fairness ==
    /\ WF_vars(LoopTest)
    /\ WF_vars(ProtectedInvoke)
    /\ WF_vars(Notify)
    /\ WF_vars(Sleep)
    /\ WF_vars(FinalInvoke)

SpecLive == Init /\ [][NextLive]_vars /\ Fairness

\* ------------------------------------------------- ToolExecutionError
\* Identifiers and messages an error is constructed from.
ToolNames == {"search", "excel"}
Messages == {"timeout", ""}

\* A constructor that leaves the identifier out of the text
\* (super().__init__(f"Error executing: {message}")).
ToolExecutionErrorNoName(tool_name, message) ==
    [tool_name |-> tool_name, message |-> message,
     text |-> "Error executing: " \o message]

\* ToolExecutionError.__init__: the two fields, and the text handed to
\* Exception.__init__, which str() of the error renders.
ToolExecutionError(tool_name, message) ==
    [tool_name |-> tool_name, message |-> message,
     text |-> "Error executing " \o tool_name \o ": " \o message]

\* A caller constructs a ToolExecutionError.
Construct ==
    /\ Len(errs) < MaxErrs
    /\ \E n \in ToolNames, msg \in Messages :
          errs' = Append(errs, [args |-> <<n, msg>>, err |-> ToolExecutionError(n, msg)])
    /\ UNCHANGED <<policy, pc, locals, history, outcome, registry, consumed,
                   callers, tool, app,
                   agent, yt>>

\* One wrapped operation with one policy, the registry, and callers that
\* construct errors.
InitErr ==
    /\ Init
    /\ tries = 1 /\ delay = 0 /\ backoff = 1 /\ logger_func = "callable"

NextErr ==
    \/ Next
    \/ Construct

SpecErr == InitErr /\ [][NextErr]_vars

\* ------------------------------------- concurrent callers of the registry
\* Thread t calls register_fallback or get_fallback.
Begin(t) ==
    /\ callers[t].pc \in {"idle", "done"}
    /\ \/ \E x \in Ids, f \in Ops :
             callers' = [callers EXCEPT ![t] =
                 [IdleCaller EXCEPT !.pc = "called", !.op = "register", !.id = x, !.fn = f]]
       \/ \E x \in Ids :
             callers' = [callers EXCEPT ![t] =
                 [IdleCaller EXCEPT !.pc = "called", !.op = "lookup", !.id = x]]
    /\ UNCHANGED <<policy, pc, locals, history, outcome, registry, consumed,
                   errs, tool, app,
                   agent, yt>>

\* The dict operation of the call takes effect: "cls._fallbacks[tool_name] =
\* fallback_func" or "cls._fallbacks.get(tool_name)", each one indivisible
\* step of the interpreter.
Effect(t) ==
    /\ callers[t].pc = "called"
    /\ LET c == callers[t] IN
       IF c.op = "register"
       THEN /\ fallbacks' = RegisterFallback(fallbacks, c.id, c.fn)
            /\ lastReg' = [lastReg EXCEPT ![c.id] = c.fn]
            /\ everReg' = everReg \cup {<<c.id, c.fn>>}
            /\ callers' = [callers EXCEPT ![t].pc = "effected"]
       ELSE /\ callers' = [callers EXCEPT ![t].pc = "effected",
                                          ![t].res = GetFallback(fallbacks, c.id),
                                          ![t].seen = {f \in Ops : <<c.id, f>> \in everReg}]
            /\ UNCHANGED <<fallbacks, lastReg, everReg>>
    /\ UNCHANGED <<policy, pc, locals, history, outcome, last, consumed,
                   errs, tool, app,
                   agent, yt>>

\* The call of thread t returns.
Finish(t) ==
    /\ callers[t].pc = "effected"
    /\ callers' = [callers EXCEPT ![t].pc = "done"]
    /\ UNCHANGED <<policy, pc, locals, history, outcome, registry, consumed,
                   errs, tool, app,
                   agent, yt>>

InitConc ==
    /\ Init
    /\ tries = 1 /\ delay = 0 /\ backoff = 1 /\ logger_func = "callable"

NextConc ==
    \E t \in Threads :
        \/ Begin(t)
        \/ Effect(t)
        \/ Finish(t)

SpecConc == InitConc /\ [][NextConc]_vars

\* ------------------------------------------------------- EnhancedTool
\* The subclasses of EnhancedTool (self.__class__.__name__).
ToolClasses == {"ExcelAnalysisTool", "YouTubeTranscriptTool"}

\* What super().__call__(*args, **kwargs) can do: return a str, None or an
\* int, or raise; str(e) of a raised failure is its msg.
ToolResults ==
    [kind : {"return"}, type : {"str"}, val : {"text", ""}]
        \cup {[kind |-> "return", type |-> "NoneType", val |-> None]}
        \cup [kind : {"return"}, type : {"int"}, val : {0, 42, -7}]
        \cup {[kind |-> "raise", type |-> "ValueError", val |-> "bad sheet"],
              [kind |-> "raise", type |-> "IOError", val |-> ""],
              [kind |-> "raise", type |-> "KeyboardInterrupt", val |-> ""]}

\* A str result.
StrResult(text) == [kind |-> "return", type |-> "str", val |-> text]

\* A conversion that tests "if not result:" instead of "if result is None:".
EnhancedCallFalsy(cls, r) ==
    IF r.kind = "raise"
    THEN IF IsException(r.type)
         THEN StrResult("Error executing " \o cls \o ": " \o r.val)
         ELSE r
    ELSE IF r.type # "str"
         THEN IF r.type = "NoneType" \/ r.val = 0
              THEN StrResult("No result available.")
              ELSE StrResult(ToString(r.val))
         ELSE r

\* EnhancedTool.__call__ applied to what super().__call__ did.
EnhancedCall(cls, r) ==
    IF r.kind = "raise"
    THEN IF IsException(r.type)
         THEN StrResult("Error executing " \o cls \o ": " \o r.val)
         ELSE r
    ELSE IF r.type # "str"
         THEN IF r.type = "NoneType"
              THEN StrResult("No result available.")
              ELSE StrResult(ToString(r.val))
         ELSE r

\* EnhancedTool.__init__ of a subclass.
ToolInit ==
    /\ tool = NoTool
    /\ \E c \in ToolClasses :
          tool' = [class |-> c, metadata |-> [successes |-> 0, failures |-> 0],
                   calls |-> <<>>, rate |-> <<>>, lastop |-> "init"]
    /\ UNCHANGED <<policy, pc, locals, history, outcome, registry, consumed,
                   callers, errs, app,
                   agent, yt>>

\* A __call__ that counts its outcome in self.metadata.
ToolCallCounting ==
    /\ tool # NoTool
    /\ Len(tool.calls) < MaxToolCalls
    /\ \E r \in ToolResults :
          tool' = [tool EXCEPT
                      !.calls = Append(@, [inner |-> r, out |-> EnhancedCall(tool.class, r)]),
                      !.metadata = IF r.kind = "return"
                                   THEN [@ EXCEPT !.successes = @ + 1]
                                   ELSE [@ EXCEPT !.failures = @ + 1],
                      !.lastop = "call"]
    /\ UNCHANGED <<policy, pc, locals, history, outcome, registry, consumed,
                   callers, errs, app, agent, yt>>

\* EnhancedTool.__call__
ToolCall ==
    /\ tool # NoTool
    /\ Len(tool.calls) < MaxToolCalls
    /\ \E r \in ToolResults :
          tool' = [tool EXCEPT
                      !.calls = Append(@, [inner |-> r, out |-> EnhancedCall(tool.class, r)]),
                      !.lastop = "call"]
    /\ UNCHANGED <<policy, pc, locals, history, outcome, registry, consumed,
                   callers, errs, app, agent, yt>>

\* EnhancedTool.get_success_rate applied to self.metadata; the float is
\* written as <<numerator, denominator>>, 0.0 as <<0, 1>>.
GetSuccessRate(metadata) ==
    LET total == metadata.successes + metadata.failures
    IN IF total = 0 THEN <<0, 1>> ELSE <<metadata.successes, total>>

\* A caller asks for the success rate.
ToolGetSuccessRate ==
    /\ tool # NoTool
    /\ tool' = [tool EXCEPT !.rate = GetSuccessRate(tool.metadata), !.lastop = "rate"]
    /\ UNCHANGED <<policy, pc, locals, history, outcome, registry, consumed,
                   callers, errs, app, agent, yt>>

\* EnhancedTool.reset_metrics
ToolResetMetrics ==
    /\ tool # NoTool
    /\ tool' = [tool EXCEPT !.metadata = [successes |-> 0, failures |-> 0],
                            !.lastop = "reset"]
    /\ UNCHANGED <<policy, pc, locals, history, outcome, registry, consumed,
                   callers, errs, app, agent, yt>>

InitTool ==
    /\ Init
    /\ tries = 1 /\ delay = 0 /\ backoff = 1 /\ logger_func = "callable"

NextTool ==
    \/ ToolInit
    \/ ToolCall
    \/ ToolGetSuccessRate
    \/ ToolResetMetrics

SpecTool == InitTool /\ [][NextTool]_vars

\* ------------------------------------------------- BasicAgent.__call__
\* What self.agent.run(prompt) can do: return a response, or raise; the val
\* of a raised failure is str(e).
RunOutcomes ==
    {[kind |-> "return", type |-> "str", val |-> "Paris"],
     [kind |-> "return", type |-> "str", val |-> " 42 apples"],
     [kind |-> "raise", type |-> "ValueError", val |-> "context_length_exceeded"],
     [kind |-> "raise", type |-> "ValueError", val |-> "maximum context length is 8096"],
     [kind |-> "raise", type |-> "ValueError", val |-> "boom"],
     [kind |-> "raise", type |-> "KeyboardInterrupt", val |-> ""]}

\* The second run, in a call that makes none.
NotRun == [kind |-> "unused", type |-> None, val |-> ""]

\* A test for the first of the two phrases only.
MentionsContextLengthFirstOnly(msg) == msg = "context_length_exceeded"

\* '"context_length_exceeded" in str(e) or "maximum context length" in
\* str(e)', over the messages of the model.
MentionsContextLength(msg) ==
    msg \in {"context_length_exceeded", "maximum context length is 8096"}

\* What happens around one call: the file download (no file name given, the
\* downloader returns, or it raises an Exception) and the runs of the agent.
AgentScenarios ==
    {sc \in [download : {"none", "ok", "raise"}, run1 : RunOutcomes,
             run2 : RunOutcomes \cup {NotRun}] :
        sc.run2 = NotRun <=> ~(sc.run1.kind = "raise" /\ MentionsContextLength(sc.run1.val))}

\* "response = response.strip()" and the clean-up of a response that starts
\* with a digit, over the responses of the model.
PostProcess(response) ==
    CASE response = "Paris" -> "Paris"
      [] response = " 42 apples" -> "42"

\* A handler that returns the text of the failure alone ("return str(e)").
ErrorAnswerNoPrefix(msg) == msg

\* f"Error generating answer: {str(e)}"
ErrorAnswer(msg) == "Error generating answer: " \o msg

\* What a call returns or raises, with the prompts the agent was run with and
\* the download errors logged.
AgentResult(kind, type, val, prompts, sc) ==
    [kind |-> kind, type |-> type, val |-> val, prompts |-> prompts,
     logged |-> IF sc.download = "raise" THEN 1 ELSE 0]

\* BasicAgent.__call__(question, task_id, file_name), for a question of type
\* qtype: the slice question[:100] before the try block, the download, the
\* first run, the second run after a context-length error, the
\* post-processing, and the outer "except Exception".
BasicAgentCall(qtype, sc) ==
    IF qtype # "str"
    THEN [kind |-> "raise", type |-> "TypeError",
          val |-> "object is not subscriptable", prompts |-> <<>>, logged |-> 0]
    ELSE LET first == sc.run1
             second == sc.run2
         IN IF first.kind = "return"
            THEN AgentResult("return", "str", PostProcess(first.val), <<"full">>, sc)
            ELSE IF ~IsException(first.type)
            THEN AgentResult("raise", first.type, first.val, <<"full">>, sc)
            ELSE IF MentionsContextLength(first.val)
            THEN IF second.kind = "return"
                 THEN AgentResult("return", "str", PostProcess(second.val),
                                  <<"full", "simplified">>, sc)
                 ELSE IF IsException(second.type)
                 THEN AgentResult("return", "str", ErrorAnswer(second.val),
                                  <<"full", "simplified">>, sc)
                 ELSE AgentResult("raise", second.type, second.val,
                                  <<"full", "simplified">>, sc)
            ELSE AgentResult("return", "str", ErrorAnswer(first.val), <<"full">>, sc)

\* The scenario recorded for a call that raises before anything happens.
NoScenario ==
    [download |-> "none", run1 |-> [kind |-> "return", type |-> "str", val |-> "Paris"],
     run2 |-> NotRun]

\* A caller calls the agent: agent(question, task_id, file_name).
AgentCall ==
    /\ Len(agent) < MaxAgentCalls
    /\ \E qtype \in {"str", "int"} :
       \E sc \in IF qtype = "str" THEN AgentScenarios ELSE {NoScenario} :
          agent' = Append(agent, [qtype |-> qtype, sc |-> sc,
                                  r |-> BasicAgentCall(qtype, sc)])
    /\ UNCHANGED <<policy, pc, locals, history, outcome, registry, consumed,
                   callers, errs, tool, app, yt>>

InitAgent ==
    /\ Init
    /\ tries = 1 /\ delay = 0 /\ backoff = 1 /\ logger_func = "callable"

NextAgent == AgentCall

\* A BasicAgent called again and again.
SpecAgent == InitAgent /\ [][NextAgent]_vars

\* ------------------------------------------------- run_and_submit_all
\* item.get("question"): a string, a JSON number, or missing (None).
Questions ==
    {[text |-> "q", type |-> "str"], [text |-> "7", type |-> "int"],
     [text |-> None, type |-> "NoneType"]}

\* The records the questions endpoint can return: task_id and question are
\* present or missing (item.get gives None).
Items ==
    {[task_id |-> t, question |-> q.text, qtype |-> q.type] :
        t \in {"t1", "t2", None}, q \in Questions}

RECURSIVE SeqsUpTo(_, _)
\* The lists of at most n elements of S.
SeqsUpTo(S, n) ==
    IF n = 0 THEN {<<>>}
    ELSE LET shorter == SeqsUpTo(S, n - 1)
         IN shorter \cup {Append(q, x) : q \in shorter, x \in S}

\* What agent(question_text, task_id, file_name) returns.
Answers ==
    {BasicAgentCall("str", sc).val :
        sc \in {c \in AgentScenarios : BasicAgentCall("str", c).kind = "return"}}

\* "if not task_id or question_text is None"
Skipped(item) == item.task_id = None \/ item.question = None

\* The Submit button is clicked: gradio calls run_and_submit_all(profile).
AppStart ==
    /\ app.pc \in {"off", "done", "crashed"}
    /\ \E p \in {"user", None} : app' = [NoApp EXCEPT !.pc = "login", !.profile = p]
    /\ UNCHANGED <<policy, pc, locals, history, outcome, registry, consumed,
                   callers, errs, tool, agent, yt>>

\* "if profile: ... else: return 'Please Login ...', None"
AppLogin ==
    /\ app.pc = "login"
    /\ app' = IF app.profile # None
              THEN [app EXCEPT !.pc = "agent"]
              ELSE [app EXCEPT !.pc = "done", !.status = "login"]
    /\ UNCHANGED <<policy, pc, locals, history, outcome, registry, consumed,
                   callers, errs, tool, agent, yt>>

\* "try: agent = BasicAgent()  except Exception as e: return ..."
AppCreateAgent ==
    /\ app.pc = "agent"
    /\ \/ app' = [app EXCEPT !.pc = "fetch", !.agent = "ok"]
       \/ app' = [app EXCEPT !.pc = "done", !.agent = "failed", !.status = "agent_error"]
    /\ UNCHANGED <<policy, pc, locals, history, outcome, registry, consumed,
                   callers, errs, tool, agent, yt>>

\* "requests.get(questions_url); raise_for_status(); json(); if not
\* questions_data: return ...", with the three except clauses.
AppFetch ==
    /\ app.pc = "fetch"
    /\ \/ \E qs \in SeqsUpTo(Items, MaxQuestions) :
             app' = IF qs = <<>>
                    THEN [app EXCEPT !.pc = "done", !.fetch = "empty", !.status = "empty"]
                    ELSE [app EXCEPT !.pc = "loop", !.fetch = "ok", !.questions = qs]
       \/ app' = [app EXCEPT !.pc = "done", !.fetch = "failed", !.status = "fetch_error"]
    /\ UNCHANGED <<policy, pc, locals, history, outcome, registry, consumed,
                   callers, errs, tool, agent, yt>>

\* The row of results_log for an answer.
AnswerRow(item, a) == [task_id |-> item.task_id, answer |-> a]

\* The row of results_log written by the handler of the loop body:
\* "Submitted Answer": f"AGENT ERROR: {e}"
ErrorRow(item, msg) == [task_id |-> item.task_id, answer |-> "AGENT ERROR: " \o msg]

\* One iteration of "for item in questions_data:", or the end of the loop.
\* In an iteration that is not skipped the agent is called; when it returns,
\* the answer is appended to answers_payload and a row to results_log, and
\* the answer is printed; an Exception raised anywhere in the try block, by
\* the agent call or by the print calls after the two appends, is handled by
\* appending an "AGENT ERROR" row to results_log.
AppLoop ==
    /\ app.pc = "loop"
    /\ IF app.idx > Len(app.questions)
       THEN app' = [app EXCEPT !.pc = "check"]
       ELSE LET item == app.questions[app.idx] IN
            IF Skipped(item)
            THEN app' = [app EXCEPT !.idx = @ + 1]
            ELSE \E sc \in AgentScenarios :
                 LET r == BasicAgentCall(item.qtype, sc) IN
                 IF r.kind = "return"
                 THEN \/ app' = [app EXCEPT
                                   !.idx = @ + 1, !.ran = @ + 1,
                                   !.answers = Append(@, [task_id |-> item.task_id,
                                                          submitted_answer |-> r.val]),
                                   !.results = Append(@, AnswerRow(item, r.val))]
                      \* print(...) raises (an encoding error, a closed stdout)
                      \/ app' = [app EXCEPT
                                   !.idx = @ + 1, !.ran = @ + 1,
                                   !.answers = Append(@, [task_id |-> item.task_id,
                                                          submitted_answer |-> r.val]),
                                   !.results = @ \o <<AnswerRow(item, r.val),
                                                      ErrorRow(item, "can't encode character")>>]
                 ELSE IF IsException(r.type)
                 THEN app' = [app EXCEPT
                                !.idx = @ + 1, !.ran = @ + 1,
                                !.results = Append(@, ErrorRow(item, r.val))]
                 \* a failure that is no Exception ends the run
                 ELSE app' = [app EXCEPT !.pc = "crashed", !.ran = @ + 1]
    /\ UNCHANGED <<policy, pc, locals, history, outcome, registry, consumed,
                   callers, errs, tool, agent, yt>>

\* A run that submits whatever the loop left, an empty payload included.
AppCheckAlwaysPost ==
    /\ app.pc = "check"
    /\ app' = [app EXCEPT !.pc = "post"]
    /\ UNCHANGED <<policy, pc, locals, history, outcome, registry, consumed,
                   callers, errs, tool,
                   agent, yt>>

\* "if not answers_payload: return 'Agent did not produce any answers ...'"
AppCheck ==
    /\ app.pc = "check"
    /\ app' = IF app.answers = <<>>
              THEN [app EXCEPT !.pc = "done", !.status = "no_answers"]
              ELSE [app EXCEPT !.pc = "post"]
    /\ UNCHANGED <<policy, pc, locals, history, outcome, registry, consumed,
                   callers, errs, tool,
                   agent, yt>>

\* "requests.post(submit_url, json=submission_data, timeout=60)" and the
\* return of each of its outcomes.
AppPost ==
    /\ app.pc = "post"
    /\ \E st \in {"submitted", "http_error", "timeout", "network_error", "unexpected"} :
          app' = [app EXCEPT !.pc = "done", !.posts = @ + 1, !.status = st]
    /\ UNCHANGED <<policy, pc, locals, history, outcome, registry, consumed,
                   callers, errs, tool,
                   agent, yt>>

InitApp ==
    /\ Init
    /\ tries = 1 /\ delay = 0 /\ backoff = 1 /\ logger_func = "callable"

NextApp ==
    \/ AppStart
    \/ AppLogin
    \/ AppCreateAgent
    \/ AppFetch
    \/ AppLoop
    \/ AppCheck
    \/ AppPost

SpecApp == InitApp /\ [][NextApp]_vars

\* ------------------------------------------ YouTubeTranscriptTool.forward
\* What happens inside _get_transcript_via_api: a manually created or a
\* generated transcript is fetched, neither exists, list_transcripts raises
\* TranscriptsDisabled, or it raises another Exception.
ApiEvents == {"manual", "generated", "none", "disabled", "error"}

\* What happens inside _get_transcript_via_download: whisper is not
\* installed, the download raises, no audio file results, the model fails to
\* load, the transcription raises, or it gives a text (possibly empty).
DownloadEvents ==
    {"no_whisper", "download_raises", "no_audio", "load_raises",
     "transcribe_raises", "transcribed", "transcribed_empty"}

\* search_term: None or a term.
SearchTerms == {None, "hello", "disabled"}

\* _get_transcript_via_api
GetTranscriptViaApi(ev) ==
    CASE ev = "manual" -> "[00:01] hello"
      [] ev = "generated" -> "[00:02] hello there"
      [] ev = "none" -> ""
      [] ev = "disabled" -> "Transcripts are disabled for this video."
      [] ev = "error" -> ""

\* _get_transcript_via_download
GetTranscriptViaDownload(ev) ==
    CASE ev = "no_whisper"
           -> "Whisper transcription is not available (install openai-whisper package)."
      [] ev = "download_raises" -> "Error obtaining transcript: " \o "HTTP 403"
      [] ev = "no_audio" -> "Failed to download audio for transcription."
      [] ev = "load_raises" -> "Error loading Whisper model: " \o "no memory"
      [] ev = "transcribe_raises" -> "Error during transcription: " \o "bad audio"
      [] ev = "transcribed" -> "hello world"
      [] ev = "transcribed_empty" -> ""

\* "search_term in line.lower()", over the texts and terms of the model.
Contains(text, term) ==
    \/ term = "hello"
       /\ text \in {"[00:01] hello", "[00:02] hello there", "hello world"}
    \/ term = "disabled"
       /\ text = "Transcripts are disabled for this video."

\* _find_in_transcript for a one-line transcript and a plain term: the
\* matching line, or the text that nothing was found.
FindInTranscript(transcript, term) ==
    IF Contains(transcript, term)
    THEN transcript
    ELSE "Could not find '" \o term \o "' in the transcript."

\* "if not transcript:" -- the empty string is falsy.
Falsy(text) == text = ""

\* The body of forward (lines 59-78) for what the two methods do: whether
\* the download method was called, the text that was searched (None when
\* there was no search) and what forward returns.
Forward(api, dl, term) ==
    LET first == GetTranscriptViaApi(api)
        tried == Falsy(first)
        transcript == IF tried THEN GetTranscriptViaDownload(dl) ELSE first
    IN IF Falsy(transcript)
       THEN [tried |-> tried, searched |-> None,
             out |-> "Could not retrieve transcript for this video."]
       ELSE IF term # None
       THEN [tried |-> tried, searched |-> transcript,
             out |-> FindInTranscript(transcript, term)]
       ELSE [tried |-> tried, searched |-> None, out |-> transcript]

\* A caller calls forward(video_id, search_term).
YtForward ==
    /\ Len(yt) < MaxYtCalls
    /\ \E api \in ApiEvents, term \in SearchTerms :
       \E dl \in IF Falsy(GetTranscriptViaApi(api)) THEN DownloadEvents ELSE {"not_called"} :
          yt' = Append(yt, [api |-> api, dl |-> dl, term |-> term,
                            r |-> Forward(api, dl, term)])
    /\ UNCHANGED <<policy, pc, locals, history, outcome, registry, consumed,
                   callers, errs, tool, app, agent>>

InitYt ==
    /\ Init
    /\ tries = 1 /\ delay = 0 /\ backoff = 1 /\ logger_func = "callable"

NextYt == YtForward

\* A YouTubeTranscriptTool whose forward is called again and again.
SpecYt == InitYt /\ [][NextYt]_vars

\* =================================================================
\* Properties
\* =================================================================

\* The last invocation of func in this call.
LastInvocation == hist[Len(hist)]

\* Invocation i raised a failure that is an instance of Exception.
FailedAt(i) == hist[i].kind = "raise" /\ hist[i].val \in ExceptionErrors

\* Every sink call of this call returned, and a sink is configured.
SinkReceives == logger_func # None /\ outcome.src # "sink"

\* The position in trace of the last invocation of func.
LastInvokePos ==
    CHOOSE i \in 1..Len(trace) :
        /\ trace[i][1] = "invoke"
        /\ \A j \in (i + 1)..Len(trace) : trace[j][1] # "invoke"

C2_SuccessOnKth ==
    \A k \in 1..Len(hist) :
        (tries >= 1 /\ k <= tries /\ hist[k].kind = "return")
        => /\ k = Len(hist)
           /\ pc = "done"
           /\ \A i \in 1..(k - 1) : FailedAt(i)
           /\ outcome = [kind |-> "return", val |-> hist[k].val, src |-> "protected"]
           /\ logger_func # None => Len(notes) = k - 1
           /\ Len(waits) = k - 1

\* C2 witness: max_attempts = 3, two failures, then "ok" on the third call.
C2_Witness ==
    /\ pc = "done" /\ tries = 3 /\ logger_func = "callable"
    /\ Len(hist) = 3 /\ hist[1].kind = "raise" /\ hist[2].kind = "raise"
    /\ hist[3] = [kind |-> "return", val |-> "ok"]
    /\ Len(notes) = 2 /\ outcome.val = "ok"

\* C3 (as claimed): with max_attempts = 1 a finished wrapper call has invoked
\* the operation exactly once, whether it succeeded or failed.
C3_NoRetryWithOneAttempt ==
    (pc = "done" /\ tries = 1) => Len(hist) = 1

\* C4 (as claimed): a failure of the sink does not reach the caller; a
\* finished call shows the operation's own result or failure.
C4_SinkFailureHarmless ==
    pc = "done" => (outcome.src # "sink" /\ outcome.val # SinkError)

\* The protected invocations of this call that raised an Exception.
CaughtFailures == {i \in 1..Len(hist) : i <= tries /\ FailedAt(i)}

C6_DelaySequence ==
    /\ \A i \in 1..Len(waits) : waits[i] = delay * Pow(backoff, i - 1)
    /\ pc = "sleep" => mdelay = delay * Pow(backoff, Len(waits))
    /\ pc \in {"loop", "try", "final"} => Len(waits) = Len(hist)
    /\ Len(waits) <= Cardinality(CaughtFailures)

\* C6 witness: three successive waits with backoff > 1.
C6_Witness ==
    /\ Len(waits) = 3 /\ backoff = 2 /\ delay = 1
    /\ waits = <<1, 2, 4>>

\* C7 (as claimed): no failure raised by a protected attempt, whatever its
\* kind, reaches the caller.
C7_AnyFailureRecovered ==
    pc = "done" => ~(outcome.kind = "raise" /\ outcome.src = "protected")

\* C7 (amended): a failure of a protected attempt that is an instance of
\* Exception is caught: it never reaches the caller, it is handed to the sink
\* when one is configured, and when that sink call returns (or no sink is
\* configured) the wrapper waits and invokes the operation again.  A failure
\* that is no Exception (KeyboardInterrupt) is not caught: it reaches the
\* caller at once, unreported.
C7_ExceptionRecovered ==
    /\ (pc = "done" /\ outcome.kind = "raise" /\ outcome.src = "protected")
       => (outcome.val \notin ExceptionErrors /\ outcome.val = LastInvocation.val)
    /\ \A i \in 1..Len(hist) :
          (i <= tries /\ hist[i].kind = "raise" /\ hist[i].val \notin ExceptionErrors)
          => (i = Len(hist) /\ pc = "done" /\ Len(notes) < i
              /\ outcome = [kind |-> "raise", val |-> hist[i].val, src |-> "protected"])
    /\ \A i \in CaughtFailures :
          /\ (logger_func # None /\ (i < Len(hist) \/ pc # "except"))
             => (Len(notes) >= i /\ notes[i].err = hist[i].val)
          /\ (pc = "done" /\ outcome.src # "sink")
             => (Len(waits) >= i /\ Len(hist) > i)

\* C7 witness: a caught ValueError was reported and retried, and the
\* KeyboardInterrupt of the second protected attempt reached the caller.
C7_Witness ==
    /\ pc = "done" /\ tries = 3 /\ logger_func = "callable"
    /\ Len(hist) = 2 /\ hist[1].val = "ValueError"
    /\ Len(notes) = 1 /\ Len(waits) = 1
    /\ outcome = [kind |-> "raise", val |-> "KeyboardInterrupt", src |-> "protected"]

\* The operations the registry holds under identifier x.
Held(x) == {p \in fallbacks : p[1] = x}

\* C8: lookup(x) returns the operation of the most recent register(x, .):
\* the registry's answer for x is the last operation registered under x in
\* every reachable state, a lookup that has just run returned it, and the
\* registry holds at most one operation per identifier.
C8_LastWriteWins ==
    /\ \A x \in Ids :
          /\ Cardinality(Held(x)) <= 1
          /\ lastReg[x] # None
             => GetFallback(fallbacks, x) = [kind |-> "return", val |-> lastReg[x]]
    /\ (last.op = "lookup" /\ lastReg[last.id] # None)
       => (last.res.kind = "return" /\ last.res.val = lastReg[last.id])

\* C8 witness: A, then B were registered under "x", and lookup("x") has
\* returned B.
C8_Witness ==
    /\ <<"x", "A">> \in everReg /\ lastReg["x"] = "B"
    /\ last.op = "lookup" /\ last.id = "x" /\ last.res.val = "B"

\* C9: lookup of an identifier that was never registered returns None and
\* does not raise, in every reachable state, the initial one included.
C9_MissReturnsNone ==
    /\ \A x \in Ids :
          (\A f \in Ops : <<x, f>> \notin everReg)
          => GetFallback(fallbacks, x) = [kind |-> "return", val |-> None]
    /\ (last.op = "lookup" /\ \A f \in Ops : <<last.id, f>> \notin everReg)
       => (last.res.kind = "return" /\ last.res.val = None)

\* C9 witness: lookup("y") has returned None while "x" is registered and
\* "y" never was.
C9_Witness ==
    /\ last.op = "lookup" /\ last.id = "y" /\ last.res.val = None
    /\ lastReg["x"] # None /\ lastReg["y"] = None

\* An identifier is registered when lookup returns an operation for it.
Registered(x) == GetFallback(fallbacks, x).val \in Ops

\* C10: once an identifier is registered it stays registered: no step of
\* register, lookup or the retry wrapper takes a registered identifier out
\* of the registry.
C10_NeverRemoved ==
    [][\A x \in Ids : Registered(x) => Registered(x)']_vars

\* C10 witness: "x" and "y" were registered, a lookup of "x" found it, and a
\* wrapper call has run to its end since, with both still registered.
C10_Witness ==
    /\ pc = "done" /\ Len(hist) >= 2
    /\ last.op = "lookup" /\ last.id = "x" /\ last.res.val \in Ops
    /\ Registered("x") /\ Registered("y")

\* The positions of trace at which func is invoked.
InvokePos == {i \in 1..Len(trace) : trace[i][1] = "invoke"}

\* C11: within one call the attempts are strictly sequential: an invocation
\* other than the first starts directly after a wait, that wait follows the
\* completion of the previous invocation, the i-th invocation has i-1 waits
\* and i-1 completed invocations before it, and an invocation still in
\* progress is the last event of the call.
C11_SequentialAttempts ==
    /\ Cardinality(InvokePos) = Len(hist)
    /\ \A i \in InvokePos :
          /\ i > 1 => trace[i - 1][1] = "wait"
          /\ Cardinality({j \in 1..(i - 1) : trace[j][1] = "wait"})
                = Cardinality({j \in InvokePos : j < i})
          /\ i < Len(trace) => trace[i + 1][1] # "invoke"
    /\ pc = "hung" => trace[Len(trace)][1] = "invoke"
    /\ pc \in {"try", "final"} =>
          (Len(waits) = Len(hist)
           /\ (trace # <<>> => trace[Len(trace)][1] = "wait"))

\* C11 witness: a call with three invocations and the two waits between them.
C11_Witness ==
    /\ pc = "done" /\ Len(hist) = 3 /\ Len(waits) = 2
    /\ Cardinality(InvokePos) = 3

\* C12: logger_func = None only disables reporting.  Without a sink nothing
\* is notified; and in every finished call whose sink calls returned, the
\* invocations made, the waits and the outcome are one and the same function
\* of the policy (tries, delay, backoff) and of what the operation did, with
\* no reference to the sink: a run without a sink and a run with a working
\* sink coincide.
C12_InertSink ==
    /\ logger_func = None => (notes = <<>> /\ \A i \in 1..Len(trace) : trace[i][1] # "notify")
    /\ (pc = "done" /\ outcome.src # "sink")
       => /\ \A i \in 1..(Len(hist) - 1) : i <= tries /\ FailedAt(i)
          /\ Len(hist) <= tries => ~FailedAt(Len(hist))
          /\ Len(hist) <= (IF tries > 0 THEN tries + 1 ELSE 1)
          /\ waits = [i \in 1..(Len(hist) - 1) |-> delay * Pow(backoff, i - 1)]
          /\ outcome.kind = LastInvocation.kind
          /\ outcome.val = LastInvocation.val

\* C12 witness: no sink, two failures and a success: two waits, no
\* notification, the value returned.
C12_Witness ==
    /\ pc = "done" /\ logger_func = None /\ delay = 1 /\ backoff = 2
    /\ Len(hist) = 3 /\ waits = <<1, 2>> /\ notes = <<>>
    /\ outcome = [kind |-> "return", val |-> "ok", src |-> "protected"]

\* C13: the policy of a wrapped operation never changes, and every call of
\* the wrapper starts with mtries = tries and mdelay = delay, whatever
\* earlier calls consumed.
C13_PolicyImmutable ==
    [][/\ tries' = tries /\ delay' = delay
       /\ backoff' = backoff /\ logger_func' = logger_func
       /\ (pc = "idle" /\ pc' = "loop") => (mtries' = tries /\ mdelay' = delay)]_vars

\* C13 witness: a call has just started with the full budget after an
\* earlier call of the same wrapper went through waits and backoff.
C13_Witness ==
    /\ consumed /\ pc = "loop" /\ hist = <<>>
    /\ tries = 3 /\ mtries = 3 /\ delay = 1 /\ mdelay = 1 /\ backoff = 2

\* C14: there is no timeout or cancellation: once an invocation hangs, the
\* call stays where it is and no invocation, notification, wait or outcome
\* follows.
C14_NoTimeout ==
    [][pc = "hung" => (/\ pc' = "hung" /\ hist' = hist /\ notes' = notes
                       /\ waits' = waits /\ trace' = trace
                       /\ outcome' = outcome /\ outcome = NoOutcome)]_vars

\* C14 witness: the second invocation of a call hangs after one retry.
C14_Witness ==
    /\ pc = "hung" /\ Len(hist) = 2 /\ Len(waits) = 1
    /\ hist[2].kind = "hang" /\ outcome = NoOutcome

\* C16: the retry wrapper and the registry are separate: no step of a
\* wrapper call changes the registry, and the invocation made after the loop
\* is an invocation of the wrapped operation itself, whose outcome is what
\* the caller gets, never the operation registered as fallback under the
\* operation's name.
C16_WrapperIgnoresRegistry ==
    [][/\ pc' # pc => (fallbacks' = fallbacks /\ lastReg' = lastReg
                       /\ everReg' = everReg /\ last' = last)
       /\ (pc = "final" /\ pc' = "done")
          => (/\ Len(hist') = Len(hist) + 1
              /\ outcome'.kind = hist'[Len(hist')].kind
              /\ outcome'.val = hist'[Len(hist')].val
              /\ outcome'.val \notin Ops)]_vars

\* C16 witness: a fallback is registered under the operation's name, the
\* retries are exhausted, and the final invocation of the operation itself
\* failed: its failure is the outcome.
C16_Witness ==
    /\ pc = "done" /\ outcome.src = "final" /\ tries = 2 /\ Len(hist) = 3
    /\ GetFallback(fallbacks, FuncName).val = "A"
    /\ outcome.kind = "raise" /\ outcome.val = LastInvocation.val

\* The text an execution error is to render, written out for every
\* identifier and message of the model.
ExpectedText ==
    [a \in ToolNames \X Messages |->
        CASE a = <<"search", "timeout">> -> "Error executing search: timeout"
          [] a = <<"search", "">>        -> "Error executing search: "
          [] a = <<"excel", "timeout">>  -> "Error executing excel: timeout"
          [] a = <<"excel", "">>         -> "Error executing excel: "]

\* C15: an execution error built from (identifier, message) keeps both
\* fields and renders "Error executing <identifier>: <message>"; no step of
\* the retry wrapper or of the registry constructs one, and a failure the
\* wrapper surfaces is the failure its last invocation (or its sink) raised,
\* never an execution error of the wrapper's own making.
C15_ErrorValue ==
    [][/\ \A i \in 1..Len(errs') :
             /\ errs'[i].err.tool_name = errs'[i].args[1]
             /\ errs'[i].err.message = errs'[i].args[2]
             /\ errs'[i].err.text = ExpectedText[errs'[i].args]
       /\ (pc' # pc \/ fallbacks' # fallbacks \/ last' # last) => errs' = errs
       /\ (pc' = "done" /\ outcome'.kind = "raise")
          => (/\ outcome'.val \in Errors \cup {SinkError}
              /\ outcome'.src # "sink" => outcome'.val = hist'[Len(hist')].val
              /\ \A i \in 1..Len(errs') : outcome'.val # errs'[i].err.text)]_vars

\* C15 witness: an error for ("search", "timeout") and one with an empty
\* message were constructed, and a wrapper call has ended in the failure of
\* its operation.
C15_Witness ==
    /\ Len(errs) = 2
    /\ errs[1].err = [tool_name |-> "search", message |-> "timeout",
                      text |-> "Error executing search: timeout"]
    /\ errs[2].err.text = "Error executing excel: "
    /\ pc = "done" /\ outcome.kind = "raise" /\ outcome.src = "final"

\* C17: with callers interleaving register and lookup, a lookup(x) returns
\* None only when no register(x, .) had taken effect before it, and
\* otherwise an operation registered under x before it; once all calls have
\* completed, the registry answers, for every identifier, the operation of
\* the register that took effect last for it, so that no registration under
\* another identifier is lost, and it holds one operation per identifier.
C17_ConcurrentRegistry ==
    /\ \A t \in Threads :
          (callers[t].op = "lookup" /\ callers[t].pc \in {"effected", "done"})
          => /\ callers[t].res.kind = "return"
             /\ callers[t].res.val = None => callers[t].seen = {}
             /\ callers[t].res.val # None => callers[t].res.val \in callers[t].seen
    /\ (\A t \in Threads : callers[t].pc \in {"idle", "done"})
       => \A x \in Ids :
             /\ Cardinality(Held(x)) <= 1
             /\ GetFallback(fallbacks, x) = [kind |-> "return", val |-> lastReg[x]]

\* C17 witness: t2's lookup("x") took effect before t1's register("x", "A")
\* and returned None; both calls have completed, with "x" and "y" registered.
C17_Witness ==
    /\ callers["t1"].pc = "done" /\ callers["t1"].op = "register"
    /\ callers["t1"].id = "x" /\ callers["t1"].fn = "A"
    /\ callers["t2"].pc = "done" /\ callers["t2"].op = "lookup"
    /\ callers["t2"].id = "x" /\ callers["t2"].res.val = None
    /\ lastReg["x"] = "A" /\ lastReg["y"] = "B"
    /\ <<"x", "B">> \in everReg

\* C18 (as claimed): every call of an EnhancedTool returns a string; no
\* failure of the underlying call propagates.
C18_AlwaysString ==
    \A i \in 1..Len(tool.calls) :
        tool.calls[i].out.kind = "return" /\ tool.calls[i].out.type = "str"

\* The text of a caught failure, written out for the classes and failures of
\* the model.
ExpectedToolError ==
    [a \in ToolClasses \X {"ValueError", "IOError"} |->
        CASE a = <<"ExcelAnalysisTool", "ValueError">>
               -> "Error executing ExcelAnalysisTool: bad sheet"
          [] a = <<"ExcelAnalysisTool", "IOError">>
               -> "Error executing ExcelAnalysisTool: "
          [] a = <<"YouTubeTranscriptTool", "ValueError">>
               -> "Error executing YouTubeTranscriptTool: bad sheet"
          [] a = <<"YouTubeTranscriptTool", "IOError">>
               -> "Error executing YouTubeTranscriptTool: "]

\* The string form of the int results of the model.
ExpectedStr == [n \in {0, 42, -7} |-> CASE n = 0 -> "0" [] n = 42 -> "42" [] n = -7 -> "-7"]

\* C18 (amended): a str result is returned unchanged, None becomes "No
\* result available.", any other result becomes its string form, and a
\* raised failure that is an instance of Exception becomes the returned text
\* "Error executing <ToolClass>: <error>"; in all these cases a string is
\* returned.  A failure that is no Exception (KeyboardInterrupt) propagates.
C18_StringUnlessBaseException ==
    \A i \in 1..Len(tool.calls) :
        LET r == tool.calls[i].inner
            o == tool.calls[i].out
        IN /\ (r.kind = "return" \/ r.type \in ExceptionErrors)
              => (o.kind = "return" /\ o.type = "str")
           /\ (r.kind = "return" /\ r.type = "str") => o.val = r.val
           /\ (r.kind = "return" /\ r.type = "NoneType") => o.val = "No result available."
           /\ (r.kind = "return" /\ r.type = "int") => o.val = ExpectedStr[r.val]
           /\ (r.kind = "raise" /\ r.type \in ExceptionErrors)
              => o.val = ExpectedToolError[<<tool.class, r.type>>]
           /\ (r.kind = "raise" /\ r.type \notin ExceptionErrors) => o = r

\* C18 witness: a call whose underlying call returned 0 gave "0", and a call
\* whose underlying call raised ValueError gave the error text.
C18_Witness ==
    /\ tool.class = "ExcelAnalysisTool" /\ Len(tool.calls) = 2
    /\ tool.calls[1].inner.type = "int" /\ tool.calls[1].inner.val = 0
    /\ tool.calls[1].out.val = "0"
    /\ tool.calls[2].inner.type = "ValueError"
    /\ tool.calls[2].out = StrResult("Error executing ExcelAnalysisTool: bad sheet")

\* The kind of the i-th event of the call.
Ev(i) == trace[i][1]

\* C19: in every call the events of a failed protected attempt come in the
\* order invocation, notification (when a sink is configured), wait, next
\* invocation; and with max_attempts = 3, initial_delay = 1, backoff = 2 and
\* an operation that fails twice and then returns "ok", the trace is exactly
\* invoke, notify, wait 1, invoke, notify, wait 2, invoke, return "ok".
C19_EventOrder ==
    /\ \A i \in 1..Len(trace) :
          /\ Ev(i) = "notify"
             => (/\ i > 1 /\ Ev(i - 1) = "invoke"
                 /\ i < Len(trace) => Ev(i + 1) \in {"wait", "raise"})
          /\ Ev(i) = "wait"
             => (/\ i > 1
                 /\ Ev(i - 1) = (IF logger_func # None THEN "notify" ELSE "invoke")
                 /\ i < Len(trace) => Ev(i + 1) = "invoke")
          /\ (Ev(i) = "invoke" /\ i < Len(trace))
             => Ev(i + 1) \in (IF logger_func # None THEN {"notify"} ELSE {"wait"})
                              \cup {"return", "raise"}
    /\ (/\ pc = "done" /\ tries = 3 /\ delay = 1 /\ backoff = 2
        /\ logger_func # None /\ Len(hist) = 3
        /\ hist[3].kind = "return" /\ hist[3].val = "ok")
       => trace = << <<"invoke">>, <<"notify">>, <<"wait", 1>>,
                     <<"invoke">>, <<"notify">>, <<"wait", 2>>,
                     <<"invoke">>, <<"return", "ok">> >>

\* C19 witness: the scenario of the claim has run to its end.
C19_Witness ==
    /\ pc = "done" /\ tries = 3 /\ delay = 1 /\ backoff = 2
    /\ logger_func = "callable" /\ Len(hist) = 3
    /\ hist[1].kind = "raise" /\ hist[2].kind = "raise"
    /\ hist[3].kind = "return" /\ hist[3].val = "ok"
    /\ Len(notes) = 2 /\ waits = <<1, 2>>
    /\ outcome = [kind |-> "return", val |-> "ok", src |-> "protected"]

\* The fetched records that are not skipped.
ValidRecords == {i \in 1..Len(app.questions) : ~Skipped(app.questions[i])}

\* No POST in a run that ended early or crashed.
NoPostWhenEndedEarly ==
    /\ app.posts <= 1
    /\ app.posts > 0
       => (/\ app.profile # None /\ app.agent = "ok" /\ app.fetch = "ok"
           /\ app.questions # <<>> /\ app.answers # <<>>
           /\ app.idx = Len(app.questions) + 1)
    /\ app.status \in {"login", "agent_error", "fetch_error", "empty", "no_answers"}
       => app.posts = 0
    /\ app.pc = "crashed" => app.posts = 0

\* C20 (as claimed): the POST is issued at most once per run, never in a run
\* that ended early, and only after the agent has been run on every fetched
\* record.
C20_PostAfterAgentRanOnAll ==
    /\ NoPostWhenEndedEarly
    /\ app.posts > 0 => app.ran = Len(app.questions)

\* C20 (amended): the POST is issued at most once per run, never in a run
\* that ended early, and only after the loop has gone through every fetched
\* record: the agent has been run on every record that has a task_id and a
\* question, and the records without have been skipped.
C20_PostAfterLoop ==
    /\ NoPostWhenEndedEarly
    /\ app.pc \in {"post", "check"} \/ app.posts > 0
       => (/\ app.idx = Len(app.questions) + 1
           /\ app.ran = Cardinality(ValidRecords))

\* C20 witness: two records were fetched, one of them without a task_id;
\* the agent ran on the other one only, and its answer has been posted.
C20_Witness ==
    /\ app.pc = "done" /\ app.posts = 1 /\ app.status = "submitted"
    /\ Len(app.questions) = 2 /\ app.questions[1].task_id = None
    /\ app.ran = 1 /\ Len(app.answers) = 1

\* The valid records the loop has gone through.
ValidProcessed == {i \in ValidRecords : i < app.idx}

\* The k-th valid record the loop has gone through, in the order fetched.
NthValid(k) ==
    CHOOSE i \in ValidProcessed : Cardinality({j \in ValidProcessed : j < i}) = k - 1

\* The rows of results_log that hold an answer of the agent.
AnsweredRows == SelectSeq(app.results, LAMBDA row : row.answer \in Answers)

\* C21 (as claimed): at every point of the loop and after it, a skipped
\* record has contributed nothing, every other record the loop has gone
\* through has contributed exactly one row to results_log and at most one
\* answer, in the order fetched: the rows are those of the valid records in
\* order, the answers are the answered rows in order, the task_ids of the
\* answers are among those of the rows, and len(answers) <= len(results) <=
\* number of records processed.
C21_OneRowPerRecord ==
    app.pc \in {"loop", "check", "post", "done"}
    => /\ Len(app.results) = Cardinality(ValidProcessed)
       /\ \A k \in 1..Len(app.results) :
             k <= Cardinality(ValidProcessed)
             => app.results[k].task_id = app.questions[NthValid(k)].task_id
       /\ Len(AnsweredRows) = Len(app.answers)
       /\ \A k \in 1..Len(app.answers) :
             /\ AnsweredRows[k].task_id = app.answers[k].task_id
             /\ AnsweredRows[k].answer = app.answers[k].submitted_answer
       /\ {app.answers[k].task_id : k \in 1..Len(app.answers)}
             \subseteq {app.results[k].task_id : k \in 1..Len(app.results)}
       /\ Len(app.answers) <= Len(app.results)
       /\ Len(app.results) <= app.idx - 1

\* The run of the agent that decides a call: the second when there is one.
LastRun(sc) == IF sc.run2 = NotRun THEN sc.run1 ELSE sc.run2

\* The valid records the loop has gone through whose question is a string.
StrProcessed == {i \in ValidProcessed : app.questions[i].qtype = "str"}

\* C22 (as claimed): no call of the agent raises, so the run is never ended
\* by one and every valid record the loop has gone through has an answer in
\* the payload.
C22_AnswerForEveryValidRecord ==
    /\ app.pc # "crashed"
    /\ app.pc \in {"loop", "check", "post", "done"}
       => Len(app.answers) = Cardinality(ValidProcessed)

\* The error answer, written out for the failures of the model.
ExpectedErrorAnswer ==
    [m \in {"boom", "context_length_exceeded", "maximum context length is 8096"} |->
        CASE m = "boom" -> "Error generating answer: boom"
          [] m = "context_length_exceeded"
               -> "Error generating answer: context_length_exceeded"
          [] m = "maximum context length is 8096"
               -> "Error generating answer: maximum context length is 8096"]

\* The rows of results_log written by the handler of the loop body for a
\* failed agent call.
AgentErrorRows ==
    SelectSeq(app.results,
              LAMBDA row : row.answer = "AGENT ERROR: object is not subscriptable")

\* What a call of the agent does with each failure, for every scenario.
OnlyNonExceptionsPropagate ==
    \A sc \in AgentScenarios :
        LET r == BasicAgentCall("str", sc)
            t == BasicAgentCall("int", sc)
        IN /\ r.kind = "raise" <=> LastRun(sc).type = "KeyboardInterrupt"
           /\ r.kind = "raise" => (r.type = "KeyboardInterrupt" /\ r.prompts # <<>>)
           /\ sc.download = "raise" => (r.logged = 1 /\ r.prompts # <<>>)
           /\ (LastRun(sc).kind = "raise" /\ LastRun(sc).type = "ValueError")
              => (r.kind = "return" /\ r.type = "str"
                  /\ r.val = ExpectedErrorAnswer[LastRun(sc).val])
           /\ LastRun(sc).kind = "return" => (r.kind = "return" /\ r.type = "str")
           /\ t.kind = "raise" /\ t.type = "TypeError" /\ t.prompts = <<>>

\* C22 (amended): a call of the agent with a string question raises only a
\* failure that is no Exception (KeyboardInterrupt); a failed download is
\* logged and the agent is still run; a run that fails with an Exception
\* gives the returned text "Error generating answer: <error>".  A call with
\* a question that is not a string raises TypeError before the try block.
\* In run_and_submit_all every valid record whose agent call returned has an
\* answer, the error text included, and it is what is posted; a record whose
\* agent call raised an Exception has an "AGENT ERROR" row and no answer; a
\* failure that is no Exception ends the run.
C22_ExceptionsBecomeAnswers ==
    /\ OnlyNonExceptionsPropagate
    /\ app.pc \in {"loop", "check", "post", "done"}
       => /\ Len(app.answers) = Cardinality(StrProcessed)
          /\ Len(AgentErrorRows) = Cardinality(ValidProcessed \ StrProcessed)
          /\ \A k \in 1..Len(app.answers) : app.answers[k].submitted_answer \in Answers
    /\ app.pc = "crashed"
       => (/\ app.idx <= Len(app.questions)
           /\ ~Skipped(app.questions[app.idx])
           /\ app.questions[app.idx].qtype = "str"
           /\ app.posts = 0)

\* C22 witness: two valid records; the agent run of the first failed and
\* its error text was appended as the answer, the question of the second is
\* a number and it has an "AGENT ERROR" row only; the payload was posted.
C22_Witness ==
    /\ app.pc = "done" /\ app.posts = 1 /\ Len(app.questions) = 2
    /\ app.questions[1].qtype = "str" /\ app.questions[2].qtype = "int"
    /\ app.answers = <<[task_id |-> "t1",
                        submitted_answer |-> "Error generating answer: boom"]>>
    /\ Len(app.results) = 2
    /\ app.results[2].answer = "AGENT ERROR: object is not subscriptable"

\* C23: in every call of the agent with a string question the agent is run
\* with the full prompt first; it is run a second time, with the simplified
\* prompt, exactly when the first run raised an error whose text mentions
\* "context_length_exceeded" or "maximum context length"; it is never run a
\* third time; any other failure of the first run is not retried and gives
\* the error answer; and a failure (an Exception) of the second run is not
\* retried either but gives the error answer.
C23_RetryOnContextLengthOnly ==
    \A i \in 1..Len(agent) :
        LET sc == agent[i].sc
            r == agent[i].r
        IN agent[i].qtype = "str"
           => /\ Len(r.prompts) \in {1, 2}
              /\ r.prompts[1] = "full"
              /\ Len(r.prompts) = 2
                 <=> (/\ sc.run1.kind = "raise"
                      /\ sc.run1.val \in {"context_length_exceeded",
                                          "maximum context length is 8096"})
              /\ Len(r.prompts) = 2 => r.prompts[2] = "simplified"
              /\ (sc.run1.kind = "raise" /\ sc.run1.val = "boom")
                 => (/\ r.prompts = <<"full">> /\ r.kind = "return"
                     /\ r.val = "Error generating answer: boom")
              /\ (sc.run2.kind = "raise" /\ sc.run2.type = "ValueError")
                 => (/\ r.prompts = <<"full", "simplified">> /\ r.kind = "return"
                     /\ r.val = ExpectedErrorAnswer[sc.run2.val])
              /\ sc.run2.kind = "return"
                 => (/\ r.kind = "return"
                     /\ r.val = (IF sc.run2.val = "Paris" THEN "Paris" ELSE "42"))

\* C23 witness: the first run failed on the context length ("maximum context
\* length"), the second run failed with another error, and the call returned
\* the error answer of the second run after two runs.
C23_Witness ==
    /\ Len(agent) = 2
    /\ agent[2].sc.run1.val = "maximum context length is 8096"
    /\ agent[2].sc.run2.val = "boom"
    /\ agent[2].r.prompts = <<"full", "simplified">>
    /\ agent[2].r.val = "Error generating answer: boom"
    /\ agent[1].sc.run1.val = "boom" /\ agent[1].r.prompts = <<"full">>

\* The texts with which a method reports that it failed.
FailureMessages ==
    {"Transcripts are disabled for this video.",
     "Whisper transcription is not available (install openai-whisper package).",
     "Error obtaining transcript: HTTP 403",
     "Failed to download audio for transcription.",
     "Error loading Whisper model: no memory",
     "Error during transcription: bad audio"}

\* C24 (as claimed): in every call of forward the download method is tried
\* whenever the API method failed; when both methods failed forward returns
\* "Could not retrieve transcript for this video."; and a failure message of
\* a method is neither returned nor searched as the transcript.
C24_FallbackOnEveryFailure ==
    \A i \in 1..Len(yt) :
        LET c == yt[i] IN
        /\ c.api \in {"none", "disabled", "error"} => c.r.tried
        /\ (c.api \in {"none", "disabled", "error"}
            /\ c.dl \notin {"transcribed", "not_called"})
           => c.r.out = "Could not retrieve transcript for this video."
        /\ c.r.out \notin FailureMessages
        /\ c.r.searched \notin FailureMessages

\* The wrapper is inside a call that has not ended.
Running == pc \in {"loop", "try", "except", "sleep", "final"}

\* C25: a started call of the wrapper ends (in a return or a raise) unless
\* an invocation of the operation never completes; and with max_attempts =
\* n >= 0 a call makes at most n + 1 invocations of the operation, at most n
\* notifications and at most n waits.
C25_BoundedCall ==
    /\ [](tries >= 0 => (/\ Len(hist) <= tries + 1
                         /\ Len(notes) <= tries
                         /\ Len(waits) <= tries))
    /\ Running ~> (pc \in {"done", "hung"})

\* C25 witness: a call with max_attempts = 3 has ended after 4 invocations,
\* 3 notifications and 3 waits.
C25_Witness ==
    /\ pc = "done" /\ tries = 3
    /\ Len(hist) = 4 /\ Len(notes) = 3 /\ Len(waits) = 3

C27_NonPositiveAttempts ==
    tries <= 0
    => /\ pc \notin {"try", "except", "sleep"}
       /\ mtries \in {0, tries}
       /\ notes = <<>> /\ waits = <<>>
       /\ Len(hist) <= 1
       /\ pc \in {"done", "hung"} => Len(hist) = 1
       /\ pc = "done"
          => (/\ outcome.src = "final"
              /\ outcome.kind = hist[1].kind /\ outcome.val = hist[1].val
              /\ trace = <<<<"invoke">>, <<outcome.kind, outcome.val>>>>)

\* C27 witness: with max_attempts = -1 the single invocation raised
\* KeyboardInterrupt, which reached the caller.
C27_Witness ==
    /\ tries = 0 - 1 /\ pc = "done" /\ Len(hist) = 1
    /\ outcome = [kind |-> "raise", val |-> "KeyboardInterrupt", src |-> "final"]

\* C28: a step changes the association of an identifier y only when it is
\* register(y, .), after which y is associated with one operation; a step
\* that is a lookup, or a step of the wrapper, leaves the whole registry as
\* it was: a lookup miss creates no entry.
C28_MinimalFootprint ==
    [][/\ \A y \in Ids :
             Held(y)' # Held(y)
             => (/\ last'.op = "register" /\ last'.id = y
                 /\ \E f \in Ops : Held(y)' = {<<y, f>>})
       /\ last'.op = "lookup" => fallbacks' = fallbacks
       /\ pc' # pc => fallbacks' = fallbacks]_vars

\* C28 witness: "x" was registered twice; a lookup of "y", never registered,
\* has returned None, and the registry holds the entry of "x" only.
C28_Witness ==
    /\ last.op = "lookup" /\ last.id = "y" /\ last.res.val = None
    /\ fallbacks = {<<"x", "A">>}
    /\ everReg = {<<"x", "A">>, <<"x", "B">>}

====
